---- MODULE Spec2Model ----
(***************************************************************************)
(* pyeodh: the lazily fetched PaginatedList (pyeodh/pagination.py) as a    *)
(* state machine.  One list is consumed by one caller through iteration,   *)
(* indexing, slicing, get_limited() and total_count; the server is a       *)
(* finite chain of pages linked by `next` links.  The records of the       *)
(* resource catalogue (pyeodh/resource_catalog.py) make the lists and      *)
(* carry the operations gated by the server's conformance list; the        *)
(* records of the processing service (pyeodh/ades.py) carry refresh,       *)
(* update, delete and deploy.  SpecShared gives the list two consumers.    *)
(***************************************************************************)
EXTENDS Integers, Sequences, FiniteSets, TLC

\* ---------------------------------------------------------------- bounds
\* Longest chain of pages the server holds.
MaxPages == 3
\* Size of a full page (pages are empty, single-element, or full).
MaxPageSize == 5
\* Every raw element whose position in the chain is a multiple of this is null.
NullEvery == 6
\* Largest index / slice stop a caller asks for.
MaxIndex == 3

\* ------------------------------------------------------ program constants
PAGINATION_LIMIT == 10

\* Conformance.TRANSACTION_EXTENSION.value
TRANSACTION_EXTENSION ==
    "https://api.stacspec.org/v1.0.0/ogcapi-features/extensions/transaction"

\* A conformance class every STAC API advertises.
CORE == "https://api.stacspec.org/v1.0.0/core"

\* None, as the value of an element of the response array.
Null == 0
\* An element of the response array that the record class cannot be built
\* from.
Broken == -2
\* None, as the value of _next_url.
NoUrl == 0
\* None, as the value of _total_count.
NoCount == -1
\* `per_page` is not a key of the request body.
NoKey == -1
\* None, as the stop of a slice.
NoStop == -1
\* The url ".../planet/search", a `?next=<token>` split off it.
PlanetSearch == 100

\* _data: None, or a dict with or without a `per_page` entry.
NoData == [none |-> TRUE, per_page |-> NoKey, next |-> NoKey]

BodyOf(p) == [none |-> FALSE, per_page |-> p, next |-> NoKey]

\* The url ".../planet/search?next=<k>": the token k names page k.
PlanetUrl(k) == 0 - k

\* The page a request to url u with body d asks for.
PageOf(u, d) ==
    IF u = PlanetSearch THEN d.next ELSE IF u < 0 THEN 0 - u ELSE u

Min(a, b) == IF a <= b THEN a ELSE b

\* Op applied to v, v evaluated once.
Bind(v, Op(_)) == CHOOSE y \in {Op(x) : x \in {v}} : TRUE

IsPrefix(s, t) == Len(s) <= Len(t) /\ SubSeq(t, 1, Len(s)) = s

\* ---------------------------------------------------------------- server
PageSizes == {0, 1, MaxPageSize}

PerPages == {NoKey, 1, MaxPageSize}

FirstBodies == {NoData} \cup {BodyOf(p) : p \in PerPages}

Hints == {"none", "context", "numMatched"}

\* What the server decides per response: whether its `next` link carries
\* the request body back, where it reports the number of matches, whether
\* its `next` link is a planet link, the page whose request it fails
\* (0: none), whether the response is a full envelope ("no"), the empty
\* object ("object") or has no body at all ("nocontent"), and whether a
\* second link with rel "next" follows the first, and the page whose first
\* record is malformed (0: none).
Responses ==
    {[echo |-> TRUE, hint |-> "context", planet |-> FALSE, failPage |-> 0,
      empty |-> "no", links |-> "one", bad |-> 0],
     [echo |-> FALSE, hint |-> "none", planet |-> FALSE, failPage |-> 0,
      empty |-> "no", links |-> "one", bad |-> 0],
     [echo |-> FALSE, hint |-> "numMatched", planet |-> FALSE, failPage |-> 0,
      empty |-> "no", links |-> "one", bad |-> 0]}

\* The responses of a network that fails some requests (raise_for_status, or
\* no connection) and of a server with planet links.
NetResponses ==
    [echo : {FALSE}, hint : {"context"}, planet : BOOLEAN,
     failPage : 0..MaxPages, empty : {"no"}, links : {"one"}, bad : {0}]

\* The responses of a server that may answer with an empty object or with
\* no body, and may send two links with rel "next".
EdgeResponses ==
    [echo : BOOLEAN, hint : {"context"}, planet : BOOLEAN, failPage : {0},
     empty : {"no", "object", "nocontent"}, links : {"one", "two"},
     bad : {0}]

\* The responses of a server one of whose pages may hold a malformed record.
DecodeResponses ==
    [echo : {FALSE}, hint : {"context"}, planet : BOOLEAN, failPage : {0},
     empty : {"no"}, links : {"one"}, bad : 0..MaxPages]

Chains ==
    UNION {[1..n -> PageSizes] : n \in 1..MaxPages}

Servers ==
    [sizes : Chains, first_data : FirstBodies]

RECURSIVE Offset(_, _)
\* Number of raw elements on the pages before page k.
Offset(sizes, k) ==
    IF k <= 1 THEN 0 ELSE Offset(sizes, k - 1) + sizes[k - 1]

IsNull(g) == g % NullEvery = 0

\* The array of raw records of page k; a record is its position in the chain.
RawPage(srv, k) ==
    LET off == Offset(srv.sizes, k)
    IN  [j \in 1..srv.sizes[k] |-> IF IsNull(off + j) THEN Null ELSE off + j]

\* `for element in resp_data if element is not None`
Decode(raw) == SelectSeq(raw, LAMBDA e : e # Null)

RECURSIVE RecordsUpTo(_, _)
\* The non-null records of pages 1..k, in page order and in-page order.
RecordsUpTo(srv, k) ==
    IF k = 0 THEN <<>> ELSE RecordsUpTo(srv, k - 1) \o Decode(RawPage(srv, k))

NumPages(srv) == Len(srv.sizes)

AllRecords(srv) == RecordsUpTo(srv, NumPages(srv))

Total(srv) == Len(AllRecords(srv))

\* A member of the `links` array of an envelope.
Link(rel, href, body) == [rel |-> rel, href |-> href, body |-> body]

\* The envelope the server returns for the page at url k: `none` for a
\* response without a body (_request_json returns None), no member at all
\* for the empty object; otherwise the records, a self link, the next link
\* unless the page is the last, and after it a second next link, to the
\* last page, when the server sends two. The first record of page r.bad is
\* malformed.
Envelope(srv, k, r) ==
    LET nxt == IF k >= NumPages(srv) THEN NoUrl
               ELSE IF r.planet THEN PlanetUrl(k + 1) ELSE k + 1
        body == IF r.echo THEN srv.first_data ELSE NoData
    IN  IF r.empty # "no"
        THEN [none |-> r.empty = "nocontent", items |-> <<>>, links |-> <<>>,
              matched |-> NoCount, numMatched |-> NoCount]
        ELSE [none    |-> FALSE,
              items   |-> IF r.bad = k /\ srv.sizes[k] > 0
                          THEN <<Broken>> \o Tail(RawPage(srv, k))
                          ELSE RawPage(srv, k),
              links   |-> <<Link("self", k, NoData)>>
                          \o (IF nxt = NoUrl THEN <<>>
                              ELSE <<Link("next", nxt, body)>>
                                   \o (IF r.links = "two"
                                       THEN <<Link("next", NumPages(srv),
                                                   NoData)>>
                                       ELSE <<>>)),
              matched |-> IF r.hint = "context" THEN Total(srv) ELSE NoCount,
              numMatched |-> IF r.hint = "numMatched" THEN Total(srv)
                             ELSE NoCount]

\* ------------------------------------------------------------------ state
VARIABLES
    server,        \* the chain of pages behind first_url
    elements,      \* _elements
    next_url,      \* _next_url
    data,          \* _data
    total_count,   \* _total_count
    requests,      \* the pages _request_json has returned to _fetch_next
    gen,           \* the generator the caller holds (iter(list) or iter(slice));
                   \* in SpecShared the generator of each consumer
    ret,           \* what the caller's last call returned or raised
    rc             \* the record the caller holds and its last call

vars ==
    <<server, elements, next_url, data, total_count, requests, gen, ret, rc>>

\* The list's own fields, as one value.
Cur ==
    [elements |-> elements, next_url |-> next_url, data |-> data,
     total_count |-> total_count, requests |-> requests]

\* ----------------------------------------------------------- PaginatedList
HasNext(L) == L.next_url # NoUrl

\* The token copied to the body, the url sent as it came.
PlanetRewriteKeepsUrl(L) ==
    IF L.next_url < 0
    THEN [L EXCEPT !.data = [L.data EXCEPT !.none = FALSE, !.next = 0 - L.next_url]]
    ELSE L

\* `if "/planet/search?next=" in self._next_url`: the token leaves the url
\* and enters the body, before the request is sent.
PlanetRewrite(L) ==
    IF L.next_url < 0
    THEN [L EXCEPT !.next_url = PlanetSearch,
                   !.data = [L.data EXCEPT !.none = FALSE, !.next = 0 - L.next_url]]
    ELSE L

\* `{}`, the default of next(filter(...), {}): .get("href") and
\* .get("body") are None.
NoLink == Link("none", NoUrl, NoData)

RECURSIVE NextLinkLast(_)
\* The last link with rel "next".
NextLinkLast(links) ==
    IF links = <<>> THEN NoLink
    ELSE IF links[Len(links)].rel = "next" THEN links[Len(links)]
    ELSE NextLinkLast(SubSeq(links, 1, Len(links) - 1))

RECURSIVE NextLink(_)
\* next(filter(lambda ln: ln.get("rel") == "next", links), {})
NextLink(links) ==
    IF links = <<>> THEN NoLink
    ELSE IF Head(links).rel = "next" THEN Head(links)
    ELSE NextLink(Tail(links))

\* What _fetch_next leaves behind when _request_json returns envelope env.
Fetched(L, k, env) ==
    [L EXCEPT !.requests = Append(@, k),
              !.next_url = NextLink(env.links).href,
              !.data = NextLink(env.links).body,
              !.total_count = env.matched]

\* `self._cls(...)` raises on an element it cannot project.
Raises(raw) == \E j \in 1..Len(raw) : raw[j] = Broken

\* _fetch_next building the records before it assigns the new fields.
ReceivedDecodeFirst(L, k, env) ==
    IF env.none
    THEN [L |-> [L EXCEPT !.requests = Append(@, k)], batch |-> <<>>,
          err |-> "AttributeError", failed |-> 0]
    ELSE IF Raises(env.items)
    THEN [L |-> [L EXCEPT !.requests = Append(@, k)], batch |-> <<>>,
          err |-> "TypeError", failed |-> 0]
    ELSE [L |-> Fetched(L, k, env), batch |-> Decode(env.items),
          err |-> "none", failed |-> 0]

\* _fetch_next from the return of _request_json on: resp_data.get raises
\* AttributeError on None; otherwise the new fields are assigned, and then
\* the batch is decoded, which raises on a malformed element.
Received(L, k, env) ==
    IF env.none
    THEN [L |-> [L EXCEPT !.requests = Append(@, k)], batch |-> <<>>,
          err |-> "AttributeError", failed |-> 0]
    ELSE IF Raises(env.items)
    THEN [L |-> Fetched(L, k, env), batch |-> <<>>,
          err |-> "TypeError", failed |-> 0]
    ELSE [L |-> Fetched(L, k, env), batch |-> Decode(env.items),
          err |-> "none", failed |-> 0]

\* _fetch_next without its `if not self._next_url` check: the request goes out
\* with no url and comes back empty.
FetchNextUnguarded(L, srv, r) ==
    IF L.next_url = NoUrl
    THEN [L |-> [L EXCEPT !.requests = Append(@, NoUrl)], batch |-> <<>>,
          err |-> "none", failed |-> 0]
    ELSE LET L1 == PlanetRewrite(L)
             k == PageOf(L1.next_url, L1.data)
             env == Envelope(srv, k, r)
         IN  IF r.failPage = k
             THEN [L |-> L1, batch |-> <<>>, err |-> "HTTPError", failed |-> k]
             ELSE Received(L1, k, env)

\* _fetch_next with `return []` in place of its `raise RuntimeError`
FetchNextSilent(L, srv, r) ==
    IF L.next_url = NoUrl
    THEN [L |-> L, batch |-> <<>>, err |-> "none", failed |-> 0]
    ELSE LET L1 == PlanetRewrite(L)
             k == PageOf(L1.next_url, L1.data)
             env == Envelope(srv, k, r)
         IN  IF r.failPage = k
             THEN [L |-> L1, batch |-> <<>>, err |-> "HTTPError", failed |-> k]
             ELSE Received(L1, k, env)

\* _fetch_next taking the url off the list before the request is sent:
\* `url, self._next_url = self._next_url, None`
FetchNextTakesUrl(L, srv, r) ==
    IF L.next_url = NoUrl
    THEN [L |-> L, batch |-> <<>>, err |-> "RuntimeError", failed |-> 0]
    ELSE LET L1 == PlanetRewrite(L)
             k == PageOf(L1.next_url, L1.data)
             env == Envelope(srv, k, r)
         IN  IF r.failPage = k
             THEN [L |-> [L1 EXCEPT !.next_url = NoUrl], batch |-> <<>>,
                   err |-> "HTTPError", failed |-> k]
             ELSE Received(L1, k, env)

\* _fetch_next: the new list fields and the decoded batch (the callers
\* append).  An error of _request_json leaves the method at the request.
FetchNext(L, srv, r) ==
    IF L.next_url = NoUrl
    THEN [L |-> L, batch |-> <<>>, err |-> "RuntimeError", failed |-> 0]
    ELSE LET L1 == PlanetRewrite(L)
             k == PageOf(L1.next_url, L1.data)
             env == Envelope(srv, k, r)
         IN  IF r.failPage = k
             THEN [L |-> L1, batch |-> <<>>, err |-> "HTTPError", failed |-> k]
             ELSE Received(L1, k, env)

RECURSIVE FetchToIndexReplaces(_, _, _, _)
\* _fetch_to_index with `self._elements = new_elements`
FetchToIndexReplaces(L, srv, r, index) ==
    IF Len(L.elements) <= index /\ HasNext(L)
    THEN Bind(FetchNext(L, srv, r), LAMBDA f :
             IF f.err # "none"
             THEN [L |-> f.L, err |-> f.err, failed |-> f.failed]
             ELSE FetchToIndexReplaces([f.L EXCEPT !.elements = f.batch],
                                       srv, r, index))
    ELSE [L |-> L, err |-> "none", failed |-> 0]

RECURSIVE FetchToIndexStrict(_, _, _, _)
\* _fetch_to_index with `while len(self._elements) < index`
FetchToIndexStrict(L, srv, r, index) ==
    IF Len(L.elements) < index /\ HasNext(L)
    THEN Bind(FetchNext(L, srv, r), LAMBDA f :
             IF f.err # "none"
             THEN [L |-> f.L, err |-> f.err, failed |-> f.failed]
             ELSE FetchToIndexStrict([f.L EXCEPT !.elements = @ \o f.batch],
                                     srv, r, index))
    ELSE [L |-> L, err |-> "none", failed |-> 0]

\* _fetch_to_index with `if` in place of `while`
FetchToIndexOnce(L, srv, r, index) ==
    IF Len(L.elements) <= index /\ HasNext(L)
    THEN Bind(FetchNext(L, srv, r), LAMBDA f :
             IF f.err # "none"
             THEN [L |-> f.L, err |-> f.err, failed |-> f.failed]
             ELSE [L |-> [f.L EXCEPT !.elements = @ \o f.batch],
                   err |-> "none", failed |-> 0])
    ELSE [L |-> L, err |-> "none", failed |-> 0]

RECURSIVE FetchToIndex(_, _, _, _)
\* _fetch_to_index
FetchToIndex(L, srv, r, index) ==
    IF Len(L.elements) <= index /\ HasNext(L)
    THEN Bind(FetchNext(L, srv, r), LAMBDA f :
             IF f.err # "none"
             THEN [L |-> f.L, err |-> f.err, failed |-> f.failed]
             ELSE FetchToIndex([f.L EXCEPT !.elements = @ \o f.batch],
                               srv, r, index))
    ELSE [L |-> L, err |-> "none", failed |-> 0]

\* __getitem__ with an int
GetItem(L, srv, r, index) ==
    Bind(FetchToIndex(L, srv, r, index), LAMBDA t :
        IF t.err # "none"
        THEN [L |-> t.L, val |-> <<>>, err |-> t.err, failed |-> t.failed]
        ELSE IF index < Len(t.L.elements)
        THEN [L |-> t.L, val |-> <<t.L.elements[index + 1]>>, err |-> "none",
              failed |-> 0]
        ELSE [L |-> t.L, val |-> <<>>, err |-> "IndexError", failed |-> 0])

\* The limit get_limited works with.
LimitOf(d) ==
    IF d.none \/ d.per_page = NoKey THEN PAGINATION_LIMIT ELSE d.per_page

\* get_limited with `return self._elements`
GetLimitedUnsliced(L, srv, r) ==
    LET limit == LimitOf(L.data)
    IN  Bind(IF Len(L.elements) < limit THEN FetchToIndex(L, srv, r, limit)
             ELSE [L |-> L, err |-> "none", failed |-> 0], LAMBDA t :
            IF t.err # "none"
            THEN [L |-> t.L, val |-> <<>>, err |-> t.err, failed |-> t.failed]
            ELSE [L |-> t.L, val |-> t.L.elements, err |-> "none", failed |-> 0])

\* get_limited with `if len(self._elements) <= limit`
GetLimitedEager(L, srv, r) ==
    LET limit == LimitOf(L.data)
    IN  Bind(IF Len(L.elements) <= limit THEN FetchToIndex(L, srv, r, limit)
             ELSE [L |-> L, err |-> "none", failed |-> 0], LAMBDA t :
            IF t.err # "none"
            THEN [L |-> t.L, val |-> <<>>, err |-> t.err, failed |-> t.failed]
            ELSE [L |-> t.L,
                  val |-> SubSeq(t.L.elements, 1, Min(limit, Len(t.L.elements))),
                  err |-> "none", failed |-> 0])

\* get_limited
GetLimited(L, srv, r) ==
    LET limit == LimitOf(L.data)
    IN  Bind(IF Len(L.elements) < limit THEN FetchToIndex(L, srv, r, limit)
             ELSE [L |-> L, err |-> "none", failed |-> 0], LAMBDA t :
            IF t.err # "none"
            THEN [L |-> t.L, val |-> <<>>, err |-> t.err, failed |-> t.failed]
            ELSE [L |-> t.L,
                  val |-> SubSeq(t.L.elements, 1, Min(limit, Len(t.L.elements))),
                  err |-> "none", failed |-> 0])

\* total_count: the count request goes to _next_url and is not a page request.
TotalCount(L, srv, r) ==
    IF L.total_count # NoCount /\ L.total_count # 0
    THEN [L |-> L, val |-> <<L.total_count>>, err |-> "none", sent |-> <<>>,
          failed |-> 0]
    ELSE IF L.next_url = NoUrl
    THEN [L |-> L, val |-> <<>>, err |-> "RuntimeError", sent |-> <<>>,
          failed |-> 0]
    ELSE LET k == PageOf(L.next_url, L.data)
             env == Envelope(srv, k, r)
         IN  IF r.failPage = k
             THEN [L |-> L, val |-> <<>>, err |-> "HTTPError",
                   sent |-> <<L.next_url>>, failed |-> k]
             ELSE IF env.none
             THEN [L |-> L, val |-> <<>>, err |-> "AttributeError",
                   sent |-> <<L.next_url>>, failed |-> 0]
             ELSE [L |-> [L EXCEPT !.total_count = env.numMatched],
                   val |-> IF env.numMatched = NoCount THEN <<>>
                           ELSE <<env.numMatched>>,
                   err |-> "none",
                   sent |-> <<L.next_url>>,
                   failed |-> 0]

\* ------------------------------------------------------------- generators
\* No generator has been created yet.
NoGen ==
    [kind |-> "none", phase |-> "done", idx |-> 0, batch |-> <<>>, out |-> <<>>,
     own |-> 0, start |-> 0, stop |-> NoStop, step |-> 1,
     prevOut |-> <<>>, prevFull |-> FALSE]

\* A generator ran from its creation to its end and every page request the
\* list has made was made inside it.
RanFull(g, reqs) ==
    g.kind = "iter" /\ g.phase = "done" /\ g.own = Len(reqs)

\* iter(list): the generator of __iter__, before its first step.  prevOut and
\* prevFull remember the iteration the caller has just finished, if any.
NewIter(old, reqs) ==
    [NoGen EXCEPT !.kind = "iter", !.phase = "cached",
                  !.prevOut = IF old.kind = "iter" /\ old.phase = "done"
                              THEN old.out ELSE <<>>,
                  !.prevFull = RanFull(old, reqs)]

\* PagedSlice.__init__ and iter(slice): `start or 0`, `step or 1`.
NewSlice(start, stop, step) ==
    [NoGen EXCEPT !.kind = "slice", !.phase = "index",
                  !.idx = start, !.start = start, !.stop = stop,
                  !.step = IF step = 0 THEN 1 ELSE step]

\* The loop of __iter__ ending at the first page that decodes to nothing.
IterLoopStopsOnEmpty(L, srv, r) ==
    IF ~HasNext(L)
    THEN [L |-> L, batch |-> <<>>, stop |-> TRUE, err |-> "none", failed |-> 0]
    ELSE Bind(FetchNext(L, srv, r), LAMBDA f :
             IF f.err # "none"
             THEN [L |-> f.L, batch |-> <<>>, stop |-> TRUE, err |-> f.err,
                   failed |-> f.failed]
             ELSE [L |-> [f.L EXCEPT !.elements = @ \o f.batch],
                   batch |-> f.batch, stop |-> f.batch = <<>>,
                   err |-> "none", failed |-> 0])

RECURSIVE IterLoopReplaces(_, _, _)
\* The loop of __iter__ with `self._elements = new_elements`
IterLoopReplaces(L, srv, r) ==
    IF ~HasNext(L)
    THEN [L |-> L, batch |-> <<>>, stop |-> TRUE, err |-> "none", failed |-> 0]
    ELSE Bind(FetchNext(L, srv, r), LAMBDA f :
             IF f.err # "none"
             THEN [L |-> f.L, batch |-> <<>>, stop |-> TRUE, err |-> f.err,
                   failed |-> f.failed]
             ELSE IF f.batch # <<>>
             THEN [L |-> [f.L EXCEPT !.elements = f.batch],
                   batch |-> f.batch, stop |-> FALSE, err |-> "none",
                   failed |-> 0]
             ELSE IterLoopReplaces([f.L EXCEPT !.elements = f.batch], srv, r))

RECURSIVE IterLoop(_, _, _)
\* The `while self._has_next()` loop of __iter__ up to its next yield.
IterLoop(L, srv, r) ==
    IF ~HasNext(L)
    THEN [L |-> L, batch |-> <<>>, stop |-> TRUE, err |-> "none", failed |-> 0]
    ELSE Bind(FetchNext(L, srv, r), LAMBDA f :
             IF f.err # "none"
             THEN [L |-> f.L, batch |-> <<>>, stop |-> TRUE, err |-> f.err,
                   failed |-> f.failed]
             ELSE IF f.batch # <<>>
             THEN [L |-> [f.L EXCEPT !.elements = @ \o f.batch],
                   batch |-> f.batch, stop |-> FALSE, err |-> "none",
                   failed |-> 0]
             ELSE IterLoop([f.L EXCEPT !.elements = @ \o f.batch], srv, r))

\* The generator after the `while` loop of __iter__ has run to its next
\* yield, to its end, or to an error of _fetch_next.
AfterLoop(g, L, w) ==
    LET n == Len(w.L.requests) - Len(L.requests)
    IN  IF w.err # "none"
        THEN [g |-> [g EXCEPT !.phase = "raised", !.idx = 0, !.batch = <<>>,
                              !.own = @ + n],
              L |-> w.L, val |-> <<>>, err |-> w.err, failed |-> w.failed]
        ELSE IF w.stop
        THEN [g |-> [g EXCEPT !.phase = "done", !.idx = 0, !.batch = <<>>,
                              !.own = @ + n],
              L |-> w.L, val |-> <<>>, err |-> "StopIteration", failed |-> 0]
        ELSE [g |-> [g EXCEPT !.phase = "batch", !.idx = 1, !.batch = w.batch,
                              !.own = @ + n, !.out = Append(@, w.batch[1])],
              L |-> w.L, val |-> <<w.batch[1]>>, err |-> "none", failed |-> 0]

\* __iter__ without its `yield from self._elements`
IterStepNoCache(g, L, srv, r) ==
    IF g.phase = "batch" /\ g.idx < Len(g.batch)
    THEN [g |-> [g EXCEPT !.idx = @ + 1, !.out = Append(@, g.batch[g.idx + 1])],
          L |-> L, val |-> <<g.batch[g.idx + 1]>>, err |-> "none", failed |-> 0]
    ELSE IF g.phase = "done"
    THEN [g |-> g, L |-> L, val |-> <<>>, err |-> "StopIteration", failed |-> 0]
    ELSE Bind(IterLoop(L, srv, r), LAMBDA w : AfterLoop(g, L, w))

\* One next() on the generator of PaginatedList.__iter__.
IterStep(g, L, srv, r) ==
    IF g.phase = "cached" /\ g.idx < Len(L.elements)
    THEN [g |-> [g EXCEPT !.idx = @ + 1, !.out = Append(@, L.elements[g.idx + 1])],
          L |-> L, val |-> <<L.elements[g.idx + 1]>>, err |-> "none", failed |-> 0]
    ELSE IF g.phase = "batch" /\ g.idx < Len(g.batch)
    THEN [g |-> [g EXCEPT !.idx = @ + 1, !.out = Append(@, g.batch[g.idx + 1])],
          L |-> L, val |-> <<g.batch[g.idx + 1]>>, err |-> "none", failed |-> 0]
    ELSE IF g.phase = "done"
    THEN [g |-> g, L |-> L, val |-> <<>>, err |-> "StopIteration", failed |-> 0]
    ELSE Bind(IterLoop(L, srv, r), LAMBDA w : AfterLoop(g, L, w))

\* PagedSlice.__iter__ with `index > self._stop` as the test of its loop
SliceStepInclusive(g, L, srv, r) ==
    IF g.phase # "index" \/ (g.stop # NoStop /\ g.idx > g.stop)
    THEN [g |-> [g EXCEPT !.phase = "done"], L |-> L, val |-> <<>>,
          err |-> "StopIteration", failed |-> 0]
    ELSE IF Len(L.elements) > g.idx \/ HasNext(L)
    THEN Bind(GetItem(L, srv, r, g.idx), LAMBDA x :
             LET n == Len(x.L.requests) - Len(L.requests)
             IN  IF x.err = "none"
                 THEN [g |-> [g EXCEPT !.idx = @ + g.step, !.own = @ + n,
                                       !.out = @ \o x.val],
                       L |-> x.L, val |-> x.val, err |-> "none", failed |-> 0]
                 ELSE [g |-> [g EXCEPT !.phase = "raised", !.own = @ + n],
                       L |-> x.L, val |-> <<>>, err |-> x.err,
                       failed |-> x.failed])
    ELSE [g |-> [g EXCEPT !.phase = "done"], L |-> L, val |-> <<>>,
          err |-> "StopIteration", failed |-> 0]

\* One next() on the generator of PagedSlice.__iter__.
SliceStep(g, L, srv, r) ==
    IF g.phase # "index" \/ (g.stop # NoStop /\ g.idx >= g.stop)
    THEN [g |-> [g EXCEPT !.phase = "done"], L |-> L, val |-> <<>>,
          err |-> "StopIteration", failed |-> 0]
    ELSE IF Len(L.elements) > g.idx \/ HasNext(L)
    THEN Bind(GetItem(L, srv, r, g.idx), LAMBDA x :
             LET n == Len(x.L.requests) - Len(L.requests)
             IN  IF x.err = "none"
                 THEN [g |-> [g EXCEPT !.idx = @ + g.step, !.own = @ + n,
                                       !.out = @ \o x.val],
                       L |-> x.L, val |-> x.val, err |-> "none", failed |-> 0]
                 ELSE [g |-> [g EXCEPT !.phase = "raised", !.own = @ + n],
                       L |-> x.L, val |-> <<>>, err |-> x.err,
                       failed |-> x.failed])
    ELSE [g |-> [g EXCEPT !.phase = "done"], L |-> L, val |-> <<>>,
          err |-> "StopIteration", failed |-> 0]

\* ---------------------------------------------------------- construction
\* PaginatedList.__init__ sending the first request itself.
PaginatedListInitEager(srv, first_data) ==
    FetchToIndex([elements |-> <<>>, next_url |-> 1, data |-> first_data,
                  total_count |-> NoCount, requests |-> <<>>],
                 srv, [echo |-> FALSE, hint |-> "none", planet |-> FALSE,
                       failPage |-> 0, empty |-> "no", links |-> "one",
                       bad |-> 0], 0).L

\* PaginatedList.__init__: the list over the pages behind first_url.
PaginatedListInit(srv, first_data) ==
    [elements |-> <<>>, next_url |-> 1, data |-> first_data,
     total_count |-> NoCount, requests |-> <<>>]

\* The methods that return a PaginatedList: the class they belong to,
\* whether they assert the types of their arguments, and whether they pass
\* a request body (a dict with `limit`, without `per_page`) or params only.
Factories ==
    {[cls |-> "Collection", name |-> "get_items", validates |-> FALSE,
      first_data |-> NoData],
     [cls |-> "Catalog", name |-> "search", validates |-> TRUE,
      first_data |-> BodyOf(NoKey)],
     [cls |-> "CatalogService", name |-> "collection_search", validates |-> TRUE,
      first_data |-> BodyOf(NoKey)],
     [cls |-> "CatalogService", name |-> "discovery_search", validates |-> TRUE,
      first_data |-> BodyOf(NoKey)],
     [cls |-> "Ades", name |-> "get_jobs", validates |-> FALSE,
      first_data |-> NoData]}

\* A caller building the list directly, with any first_data.
DirectFactories ==
    {[cls |-> "none", name |-> "PaginatedList", validates |-> FALSE,
      first_data |-> d] : d \in FirstBodies}

\* --------------------------------------------------------------- records
Classes == {"CatalogService", "Catalog", "Collection", "Item", "Ades"}

\* The `description` a record holds; 0 is the one it was built with.
Descriptions == {1, 2}

\* An empty response body.
NoBody == 0

\* What GET /conformance may return as `conformsTo`.
ConformanceLists == {{}, {CORE}, {CORE, TRANSACTION_EXTENSION}}

\* The operations behind a conformance check: class, name, the method of
\* the mutating request and the url it goes to (self_href, collections_href
\* or items_href), whether the arguments are asserted, and whether a
\* non-empty response is projected back onto the record.
GatedOps ==
    {[cls |-> "CatalogService", name |-> "create_catalog", method |-> "POST",
      href |-> "collections", validates |-> TRUE, refresh |-> FALSE],
     [cls |-> "Catalog", name |-> "update", method |-> "PUT",
      href |-> "self", validates |-> TRUE, refresh |-> TRUE],
     [cls |-> "Catalog", name |-> "delete", method |-> "DELETE",
      href |-> "self", validates |-> FALSE, refresh |-> FALSE],
     [cls |-> "Catalog", name |-> "create_collection", method |-> "POST",
      href |-> "collections", validates |-> TRUE, refresh |-> FALSE],
     [cls |-> "Collection", name |-> "update", method |-> "PUT",
      href |-> "self", validates |-> TRUE, refresh |-> TRUE],
     [cls |-> "Collection", name |-> "delete", method |-> "DELETE",
      href |-> "self", validates |-> FALSE, refresh |-> FALSE],
     [cls |-> "Collection", name |-> "create_item", method |-> "POST",
      href |-> "items", validates |-> FALSE, refresh |-> FALSE],
     [cls |-> "Item", name |-> "update", method |-> "PUT",
      href |-> "self", validates |-> FALSE, refresh |-> TRUE],
     [cls |-> "Item", name |-> "delete", method |-> "DELETE",
      href |-> "self", validates |-> FALSE, refresh |-> FALSE]}

\* `class CatalogService(Catalog)`: the methods of cls are methods of o.
IsA(o, cls) ==
    o.cls = cls \/ (o.cls = "CatalogService" /\ cls = "Catalog")

\* get_root() is a CatalogService: the record is one, or its chain of
\* parents ends in one (from_href builds records without a parent).
RootIsService(o) == o.cls = "CatalogService" \/ o.rooted

\* self.get_root().check_conforms_to(uri): GET /conformance on the root
\* service, then `uri in conformsTo`.
CheckConformsTo(o, conf, uri) ==
    IF RootIsService(o)
    THEN [val |-> uri \in conf, err |-> "none", calls |-> <<"GET">>]
    ELSE [val |-> FALSE, err |-> "NotImplementedError", calls |-> <<>>]

\* A gated method that sends its request whatever check_conforms_to says.
GatedUnchecked(o, op, valid, conf, body) ==
    LET c == CheckConformsTo(o, conf, TRANSACTION_EXTENSION)
    IN  IF c.err # "none"
        THEN [o |-> o, err |-> c.err, url |-> "none", calls |-> c.calls]
        ELSE IF op.validates /\ ~valid
        THEN [o |-> o, err |-> "AssertionError", url |-> "none", calls |-> c.calls]
        ELSE [o |-> IF op.refresh /\ body # NoBody
                    THEN [o EXCEPT !.description = body] ELSE o,
              err |-> "none", url |-> op.href,
              calls |-> Append(c.calls, op.method)]

\* A gated method: the conformance check, the asserts on the arguments, the
\* mutating request, and `if resp_data: self._set_props(...)`.
Gated(o, op, valid, conf, body) ==
    LET c == CheckConformsTo(o, conf, TRANSACTION_EXTENSION)
    IN  IF c.err # "none"
        THEN [o |-> o, err |-> c.err, url |-> "none", calls |-> c.calls]
        ELSE IF ~c.val
        THEN [o |-> o, err |-> "ConformanceError", url |-> "none", calls |-> c.calls]
        ELSE IF op.validates /\ ~valid
        THEN [o |-> o, err |-> "AssertionError", url |-> "none", calls |-> c.calls]
        ELSE [o |-> IF op.refresh /\ body # NoBody
                    THEN [o EXCEPT !.description = body] ELSE o,
              err |-> "none", url |-> op.href,
              calls |-> Append(c.calls, op.method)]

\* A record: its class, whether its parents lead to the service, its
\* description, the description of the _pystac_object that __init__ built
\* and to_dict() serialises; and its last call: the method, the conformance
\* list the server advertised, the error raised, the requests sent, the url
\* of the mutating request.
Record(cls, rooted) ==
    [cls |-> cls, rooted |-> rooted, description |-> 0, pystac |-> 0,
     op |-> "none",
     conf |-> {}, err |-> "none", calls |-> <<>>, url |-> "none"]

\* No record is held.
NoRc == Record("none", FALSE)

\* ------------------------------------------------------------------- ades
\* A key the JSON does not have; an attribute that was never assigned.
Absent == "absent"

\* A value _set_props cannot project: a `created` that fromisoformat
\* rejects, a `version` that is not a string.
Malformed == "malformed"

\* AdesJobStatus
AdesJobStatus == {"accepted", "running", "successful", "failed", "dismissed"}

\* The values the server sends for `created` and `finished`; a record built
\* earlier holds Old.
Old == "2024-01-01T00:00:00Z"

New == "2024-06-01T00:00:00Z"

\* The href of each link, and the urls built from them by join_url.
JobUrl == "ades/jobs/j"

AdesUrl == "ades"

ItemsUrl == "collections/c/items"

ItemUrl == "collections/c/items/i"

ProcessesUrl == "ades/processes"

ProcessUrl == "ades/processes/p"

ExecuteUrl == "ades/processes/p/execution"

ResultsUrl == "ades/jobs/j/results"

\* The link each class resolves its requests from: AdesRelType.STATUS for
\* a Job, AdesRelType.SELF for the Ades root, RelType.ITEMS for a Collection.
RequiredRel ==
    [Job |-> "monitor", Ades |-> "self", Collection |-> "items"]

HrefOf ==
    [monitor |-> JobUrl, self |-> AdesUrl, items |-> ItemsUrl]

\* A response without a body: _request_json returns None for it.
EmptyBody == [empty |-> TRUE]

\* No record: what a method without a result returns.
NoValue == [cls |-> "none"]

\* The sets of rels among the links of a job.
JobLinks == {{}, {"monitor"}, {"monitor", "results"}}

\* AdesRelType.RESULTS_NOT_READY
RESULTS_NOT_READY == "http://www.opengis.net/def/rel/ogc/1.0/exception/result-not-ready"

\* The JSON of a job as the server sends it.
JobBodies ==
    [empty : {FALSE}, status : {"successful", "dismissed"}, created : {Absent, New, Malformed},
     finished : {Absent, New}, links : JobLinks]

\* The JSON the server sends for the results of a job: its `type`, and the
\* number of item links of a results collection.
ResultsBodies ==
    [empty : {FALSE}, type : {Absent, RESULTS_NOT_READY, "Collection"},
     items : {0, 2}]

\* The JSON of a process as the server sends it.
ProcessBodies ==
    [empty : {FALSE}, title : {Old, New}, version : {Absent, New, Malformed}]

\* A Job record: the attributes _set_props assigns, and the cached
\* self_href (Absent until the property is first read).
JobRecord(status, created, finished, links) ==
    [cls |-> "Job", status |-> status, created |-> created,
     finished |-> finished, links |-> links, href |-> Absent]

\* A Process record; __init__ assigns self_href.
ProcessRecord(title, version) ==
    [cls |-> "Process", title |-> title, version |-> version,
     href |-> ProcessUrl]

\* The Ades root and a Collection: their links and their cached href.
LinkRecord(cls, links) ==
    [cls |-> cls, links |-> links, href |-> Absent]

\* Job._set_props leaving the status to the caller.
JobSetPropsKeepsStatus(o, obj) ==
    LET o1 == [o EXCEPT !.links = obj.links]
        o2 == IF obj.created # Absent
              THEN [o1 EXCEPT !.created = obj.created] ELSE o1
        o3 == IF obj.finished # Absent
              THEN [o2 EXCEPT !.finished = obj.finished] ELSE o2
    IN  IF obj.created = Malformed
        THEN [o |-> o1, err |-> "ValueError"]
        ELSE [o |-> o3, err |-> "none"]

\* Job._set_props: status and links are assigned, then `created` and
\* `finished` when they are keys of obj; fromisoformat raises ValueError.
JobSetProps(o, obj) ==
    LET o1 == [o EXCEPT !.status = obj.status, !.links = obj.links]
        o2 == IF obj.created # Absent
              THEN [o1 EXCEPT !.created = obj.created] ELSE o1
        o3 == IF obj.finished # Absent
              THEN [o2 EXCEPT !.finished = obj.finished] ELSE o2
    IN  IF obj.created = Malformed
        THEN [o |-> o1, err |-> "ValueError"]
        ELSE [o |-> o3, err |-> "none"]

\* Process._set_props: title is assigned, then version; _make_str_prop
\* raises TypeError.
ProcessSetProps(o, obj) ==
    IF obj.version = Malformed
    THEN [o |-> [o EXCEPT !.title = obj.title], err |-> "TypeError"]
    ELSE [o |-> [o EXCEPT !.title = obj.title, !.version = obj.version],
          err |-> "none"]

SetProps(o, obj) ==
    IF o.cls = "Job" THEN JobSetProps(o, obj) ELSE ProcessSetProps(o, obj)

\* The cached_property self_href / items_href: the href of the required
\* link, kept on the record once read.
Href(o) ==
    IF o.href # Absent
    THEN [o |-> o, val |-> o.href, err |-> "none"]
    ELSE IF RequiredRel[o.cls] \in o.links
    THEN [o |-> [o EXCEPT !.href = HrefOf[RequiredRel[o.cls]]],
          val |-> HrefOf[RequiredRel[o.cls]], err |-> "none"]
    ELSE [o |-> o, val |-> Absent,
          err |-> IF o.cls = "Collection" THEN "RuntimeError"
                  ELSE "ValueError"]

Req(method, url) == [method |-> method, url |-> url]

\* What a method call on a record gives back: the record afterwards, the
\* value returned, the error raised, the requests sent.
Outcome(o, val, err, calls) ==
    [o |-> o, val |-> val, err |-> err, calls |-> calls]

\* `self._set_props(response)` without the `if response`
ReprojectAlways(o, body, calls) ==
    IF body.empty
    THEN Outcome(o, NoValue, "AttributeError", calls)
    ELSE LET p == SetProps(o, body)
         IN  Outcome(p.o, NoValue, p.err, calls)

\* `if response: self._set_props(response)`
Reproject(o, body, calls) ==
    IF body.empty
    THEN Outcome(o, NoValue, "none", calls)
    ELSE LET p == SetProps(o, body)
         IN  Outcome(p.o, NoValue, p.err, calls)

\* Job.refresh (GET) and Job.delete (DELETE): the request on self_href,
\* then the projection of a non-empty response.  fail is the position of
\* the request that raises (0: none).
Job_request(o, method, body, fail) ==
    LET h == Href(o)
    IN  IF h.err # "none"
        THEN Outcome(o, NoValue, h.err, <<>>)
        ELSE IF fail = 1
        THEN Outcome(h.o, NoValue, "HTTPError", <<Req(method, h.val)>>)
        ELSE Reproject(h.o, body, <<Req(method, h.val)>>)

\* The requests of get_result_items: the results link, then the item links
\* of the results collection, in order.
ResultsCalls(n) ==
    <<Req("GET", ResultsUrl)>> \o [j \in 1..n |-> Req("GET", ItemUrl)]

\* The Items get_result_items returns.
ResultItems(n) == [cls |-> "Items", count |-> n]

\* get_result_items once the results request may be sent: HTTPError at
\* the failing request, AttributeError on a response without a body,
\* ResultsNotReadyError on `type` missing or result-not-ready, otherwise one
\* GET per item link.
Job_fetch_results(o, body, fail) ==
    IF fail = 1
    THEN Outcome(o, NoValue, "HTTPError", ResultsCalls(0))
    ELSE IF body.empty
    THEN Outcome(o, NoValue, "AttributeError", ResultsCalls(0))
    ELSE IF body.type \in {Absent, RESULTS_NOT_READY}
    THEN Outcome(o, NoValue, "ResultsNotReadyError", ResultsCalls(0))
    ELSE IF fail > 1 /\ fail - 1 <= body.items
    THEN Outcome(o, NoValue, "HTTPError", ResultsCalls(fail - 1))
    ELSE Outcome(o, ResultItems(body.items), "none", ResultsCalls(body.items))

\* get_result_items sending the results request whatever the status.
Job_get_result_items_any_status(o, body, fail) ==
    IF "results" \notin o.links
    THEN Outcome(o, NoValue, "ResultsNotReadyError", <<>>)
    ELSE Job_fetch_results(o, body, fail)

\* Job.get_result_items over Job._get_results_collection: a status other
\* than successful raises, then a missing results link raises, both before
\* any request.
Job_get_result_items(o, body, fail) ==
    IF o.status # "successful"
    THEN Outcome(o, NoValue, "ResultsNotReadyError", <<>>)
    ELSE IF "results" \notin o.links
    THEN Outcome(o, NoValue, "ResultsNotReadyError", <<>>)
    ELSE Job_fetch_results(o, body, fail)

\* Process.update accepting both arguments, cwl_url sent last.
Process_update_lenient(o, cwl_url, cwl_yaml, body, fail) ==
    LET puts == (IF cwl_yaml THEN <<Req("PUT", o.href)>> ELSE <<>>)
                    \o (IF cwl_url THEN <<Req("PUT", o.href)>> ELSE <<>>)
    IN  IF fail = 1 /\ puts # <<>>
        THEN Outcome(o, NoValue, "HTTPError", SubSeq(puts, 1, 1))
        ELSE IF fail = 2
        THEN Outcome(o, NoValue, "HTTPError",
                     Append(puts, Req("GET", o.href)))
        ELSE Reproject(o, body, Append(puts, Req("GET", o.href)))

\* Process.update: both arguments or neither raise ValueError; the PUT on
\* self_href, the GET on self_href, the projection of a non-empty response.
Process_update(o, cwl_url, cwl_yaml, body, fail) ==
    IF cwl_yaml /\ cwl_url
    THEN Outcome(o, NoValue, "ValueError", <<>>)
    ELSE IF ~cwl_yaml /\ ~cwl_url
    THEN Outcome(o, NoValue, "ValueError", <<>>)
    ELSE IF fail = 1
    THEN Outcome(o, NoValue, "HTTPError", <<Req("PUT", o.href)>>)
    ELSE IF fail = 2
    THEN Outcome(o, NoValue, "HTTPError",
                 <<Req("PUT", o.href), Req("GET", o.href)>>)
    ELSE Reproject(o, body, <<Req("PUT", o.href), Req("GET", o.href)>>)

\* Job(client, headers, response): _set_props on a new object.
NewJob(body) ==
    IF body.empty
    THEN [o |-> NoValue, err |-> "AttributeError"]
    ELSE JobSetProps(JobRecord(Absent, Absent, Absent, {}), body)

\* Process(client, headers, response, parent_url)
NewProcess(body) ==
    IF body.empty
    THEN [o |-> NoValue, err |-> "AttributeError"]
    ELSE ProcessSetProps(ProcessRecord(Absent, Absent), body)

\* Process.execute: the POST on execute_href; the Job of the response.
Process_execute(o, body, fail) ==
    IF fail = 1
    THEN Outcome(o, NoValue, "HTTPError", <<Req("POST", ExecuteUrl)>>)
    ELSE LET j == NewJob(body)
         IN  Outcome(o, IF j.err = "none" THEN j.o ELSE NoValue, j.err,
                     <<Req("POST", ExecuteUrl)>>)

\* Process.delete: _request_raw("DELETE", self_href)
Process_delete(o, fail) ==
    Outcome(o, NoValue, IF fail = 1 THEN "HTTPError" ELSE "none",
            <<Req("DELETE", o.href)>>)

\* Ades.deploy_process: both arguments or neither raise ValueError; the
\* POST on processes_href (built from self_href); RuntimeError without a
\* Location header; the GET on the location; the Process of the response.
Ades_deploy_process(o, cwl_url, cwl_yaml, location, body, fail) ==
    IF cwl_yaml /\ cwl_url
    THEN Outcome(o, NoValue, "ValueError", <<>>)
    ELSE IF ~cwl_yaml /\ ~cwl_url
    THEN Outcome(o, NoValue, "ValueError", <<>>)
    ELSE LET h == Href(o)
             post == <<Req("POST", ProcessesUrl)>>
         IN  IF h.err # "none"
             THEN Outcome(o, NoValue, h.err, <<>>)
             ELSE IF fail = 1
             THEN Outcome(h.o, NoValue, "HTTPError", post)
             ELSE IF location = Absent
             THEN Outcome(h.o, NoValue, "RuntimeError", post)
             ELSE IF fail = 2
             THEN Outcome(h.o, NoValue, "HTTPError",
                          Append(post, Req("GET", location)))
             ELSE LET p == NewProcess(body)
                  IN  Outcome(h.o, IF p.err = "none" THEN p.o ELSE NoValue,
                              p.err, Append(post, Req("GET", location)))

\* Collection.get_item: the GET below items_href.
Collection_get_item(o, fail) ==
    LET h == Href(o)
    IN  IF h.err # "none"
        THEN Outcome(o, NoValue, h.err, <<>>)
        ELSE Outcome(h.o, NoValue, IF fail = 1 THEN "HTTPError" ELSE "none",
                     <<Req("GET", ItemUrl)>>)

\* ---------------------------------------------------------------- actions
\* The slices the caller takes: list[start:stop:step].
SliceStarts == {0, 1}

SliceStops == {NoStop, MaxIndex}

SliceSteps == {1, 2}

\* What a call returned: the operation, its argument, the value or the
\* error, the number of requests the call sent, and the page whose request
\* raised (0: none).
Ret(op, arg, x, L) ==
    [op |-> op, arg |-> arg, val |-> x.val, err |-> x.err,
     ncalls |-> Len(x.L.requests) - Len(L.requests)
                    + IF x.failed # 0 THEN 1 ELSE 0,
     failed |-> x.failed]

NoRet ==
    [op |-> "init", arg |-> 0, val |-> <<>>, err |-> "none", ncalls |-> 0,
     failed |-> 0]

Install(L) ==
    /\ elements' = L.elements
    /\ next_url' = L.next_url
    /\ data' = L.data
    /\ total_count' = L.total_count
    /\ requests' = L.requests

\* PaginatedList(cls, client, method, first_url, list_key, ..., first_data)
Init ==
    /\ server \in Servers
    /\ elements = <<>>
    /\ next_url = 1
    /\ data = server.first_data
    /\ total_count = NoCount
    /\ requests = <<>>
    /\ gen = NoGen
    /\ ret = NoRet
    /\ rc = NoRc

\* list[i]
Get(i, r) ==
    \E x \in {GetItem(Cur, server, r, i)} :
        /\ Install(x.L)
        /\ ret' = Ret("get", i, x, Cur)
        /\ gen' = NoGen
        /\ UNCHANGED <<server, rc>>

\* list.get_limited()
Limited(r) ==
    \E x \in {GetLimited(Cur, server, r)} :
        /\ Install(x.L)
        /\ ret' = Ret("get_limited", LimitOf(data), x, Cur)
        /\ gen' = NoGen
        /\ UNCHANGED <<server, rc>>

\* list.total_count; the argument recorded is the url of the count request.
ReadTotalCount(r) ==
    LET x == TotalCount(Cur, server, r)
        url == IF x.sent = <<>> THEN NoUrl ELSE x.sent[1]
    IN  /\ Install(x.L)
        /\ ret' = [Ret("total_count", url, x, Cur) EXCEPT !.ncalls = Len(x.sent)]
        /\ gen' = NoGen
        /\ UNCHANGED <<server, rc>>

\* list._fetch_next() by a caller that did not check _has_next() first
FetchNextExhausted(r) ==
    \E x \in {FetchNext(Cur, server, r)} :
        /\ next_url = NoUrl
        /\ Install(x.L)
        /\ ret' = [op |-> "fetch_next", arg |-> 0, val |-> x.batch, err |-> x.err,
                   ncalls |-> Len(x.L.requests) - Len(requests),
                   failed |-> x.failed]
        /\ gen' = NoGen
        /\ UNCHANGED <<server, rc>>

\* iter(list)
Iterate ==
    /\ gen.kind = "none" \/ gen.phase \in {"done", "raised"}
    /\ gen' = NewIter(gen, requests)
    /\ ret' = [NoRet EXCEPT !.op = "iter"]
    /\ UNCHANGED <<server, elements, next_url, data, total_count, requests, rc>>

\* iter(list[start:stop:step])
Slice(start, stop, step) ==
    /\ gen.kind = "none" \/ gen.phase \in {"done", "raised"}
    /\ gen' = NewSlice(start, stop, step)
    /\ ret' = [NoRet EXCEPT !.op = "slice"]
    /\ UNCHANGED <<server, elements, next_url, data, total_count, requests, rc>>

\* next(generator)
GenNext(r) ==
    /\ gen.kind # "none"
    /\ gen.phase \notin {"done", "raised"}
    /\ \E x \in {IF gen.kind = "iter" THEN IterStep(gen, Cur, server, r)
                  ELSE SliceStep(gen, Cur, server, r)} :
           /\ Install(x.L)
           /\ gen' = x.g
           /\ ret' = Ret("next", 0, x, Cur)
    /\ UNCHANGED <<server, rc>>

Next ==
    \/ \E i \in 0..MaxIndex, r \in Responses : Get(i, r)
    \/ \E r \in Responses : Limited(r)
    \/ \E r \in Responses : ReadTotalCount(r)
    \/ \E r \in Responses : FetchNextExhausted(r)
    \/ Iterate
    \/ \E a \in SliceStarts, b \in SliceStops, c \in SliceSteps :
          Slice(a, b, c)
    \/ \E r \in Responses : GenNext(r)

Spec == Init /\ [][Next]_vars

\* A new list replaces the one the caller holds: PaginatedList(...) or one
\* of the methods that return a list.
Construct(f) ==
    LET srv == [server EXCEPT !.first_data = f.first_data]
    IN  /\ Install(PaginatedListInit(srv, f.first_data))
        /\ server' = srv
        /\ gen' = NoGen
        /\ ret' = [NoRet EXCEPT !.op = f.name]
        /\ UNCHANGED rc

\* Making a list, indexing it, and slicing it.
NextLazy ==
    \/ \E f \in Factories \cup DirectFactories : Construct(f)
    \/ \E i \in 0..MaxIndex, r \in Responses : Get(i, r)
    \/ \E a \in SliceStarts, b \in SliceStops, c \in SliceSteps :
          Slice(a, b, c)
    \/ \E r \in Responses : GenNext(r)

SpecLazy == Init /\ [][NextLazy]_vars

\* The list on a network that fails requests, over a server with planet
\* links.
NextNet ==
    \/ \E i \in {0, MaxIndex}, r \in NetResponses : Get(i, r)
    \/ \E r \in NetResponses : ReadTotalCount(r)
    \/ Iterate
    \/ \E r \in NetResponses : GenNext(r)

SpecNet == Init /\ [][NextNet]_vars

\* record.<op>(...) with arguments of the right types or not, against a
\* server advertising conf and answering the mutating request with body.
Call(op, valid, conf, body) ==
    LET x == Gated(rc, op, valid, conf, body)
    IN  /\ IsA(rc, op.cls)
        /\ rc' = [x.o EXCEPT !.op = op.name, !.conf = conf, !.err = x.err,
                             !.calls = x.calls, !.url = x.url]
        /\ UNCHANGED <<server, elements, next_url, data, total_count,
                       requests, gen, ret>>

\* record.search(...), get_items(), ...: the asserts on the arguments, then
\* the list.
Search(f, valid) ==
    /\ IsA(rc, f.cls)
    /\ rc' = [rc EXCEPT !.op = f.name, !.conf = {}, !.calls = <<>>,
                        !.url = "none",
                        !.err = IF f.validates /\ ~valid
                                THEN "AssertionError" ELSE "none"]
    /\ IF f.validates /\ ~valid
       THEN UNCHANGED <<server, elements, next_url, data, total_count,
                        requests, gen, ret>>
       ELSE LET srv == [server EXCEPT !.first_data = f.first_data]
            IN  /\ Install(PaginatedListInit(srv, f.first_data))
                /\ server' = srv
                /\ gen' = NoGen
                /\ ret' = [NoRet EXCEPT !.op = f.name]

\* A record of each class, fetched through its parents or by from_href.
InitRC ==
    /\ server = [sizes |-> <<MaxPageSize>>, first_data |-> NoData]
    /\ elements = <<>>
    /\ next_url = 1
    /\ data = NoData
    /\ total_count = NoCount
    /\ requests = <<>>
    /\ gen = NoGen
    /\ ret = NoRet
    /\ rc \in {Record(c, p) : c \in Classes, p \in BOOLEAN}

NextRC ==
    \/ \E op \in GatedOps, valid \in BOOLEAN, conf \in ConformanceLists,
          body \in Descriptions \cup {NoBody} : Call(op, valid, conf, body)
    \/ \E f \in Factories, valid \in BOOLEAN : Search(f, valid)

SpecRC == InitRC /\ [][NextRC]_vars

\* No arguments.
NoArgs == [cwl_url |-> FALSE, cwl_yaml |-> FALSE]

\* The record the caller holds, and its last call: the method, whether
\* cwl_url and cwl_yaml were given, the body of the response that was to be
\* projected, the value returned, the error raised, the requests sent.
Held(o) ==
    [o |-> o, op |-> "none", args |-> NoArgs, body |-> EmptyBody,
     val |-> NoValue, err |-> "none", calls |-> <<>>]

\* The caller's view after a call.
Returned(name, args, body, x) ==
    /\ rc' = [o |-> x.o, op |-> name, args |-> args, body |-> body,
              val |-> x.val, err |-> x.err, calls |-> x.calls]
    /\ UNCHANGED <<server, elements, next_url, data, total_count, requests,
                   gen, ret>>

\* The positions at which a request of a call may fail (0: none does).
Failures == {0, 1, 2}

\* job.refresh()
JobRefresh(body, fail) ==
    /\ rc.o.cls = "Job"
    /\ Returned("refresh", NoArgs, body, Job_request(rc.o, "GET", body, fail))

\* job.delete()
JobDelete(body, fail) ==
    /\ rc.o.cls = "Job"
    /\ Returned("delete", NoArgs, body,
                Job_request(rc.o, "DELETE", body, fail))

\* process.update(cwl_url, cwl_yaml)
ProcessUpdate(cwl_url, cwl_yaml, body, fail) ==
    /\ rc.o.cls = "Process"
    /\ Returned("update", [cwl_url |-> cwl_url, cwl_yaml |-> cwl_yaml], body,
                Process_update(rc.o, cwl_url, cwl_yaml, body, fail))

\* process.execute(inputs)
ProcessExecute(body, fail) ==
    /\ rc.o.cls = "Process"
    /\ Returned("execute", NoArgs, body, Process_execute(rc.o, body, fail))

\* process.delete()
ProcessDelete(fail) ==
    /\ rc.o.cls = "Process"
    /\ Returned("delete", NoArgs, EmptyBody, Process_delete(rc.o, fail))

\* ades.deploy_process(cwl_url, cwl_yaml)
DeployProcess(cwl_url, cwl_yaml, location, body, fail) ==
    /\ rc.o.cls = "Ades"
    /\ Returned("deploy_process",
                [cwl_url |-> cwl_url, cwl_yaml |-> cwl_yaml], body,
                Ades_deploy_process(rc.o, cwl_url, cwl_yaml, location, body,
                                    fail))

\* collection.get_item(item_id)
CollectionGetItem(fail) ==
    /\ rc.o.cls = "Collection"
    /\ Returned("get_item", NoArgs, EmptyBody, Collection_get_item(rc.o, fail))

\* job.get_result_items()
JobGetResultItems(body, fail) ==
    /\ rc.o.cls = "Job"
    /\ Returned("get_result_items", NoArgs, body,
                Job_get_result_items(rc.o, body, fail))

\* A record of the processing service or a collection, as built from a
\* response received earlier.
InitAdes ==
    /\ server = [sizes |-> <<MaxPageSize>>, first_data |-> NoData]
    /\ elements = <<>>
    /\ next_url = 1
    /\ data = NoData
    /\ total_count = NoCount
    /\ requests = <<>>
    /\ gen = NoGen
    /\ ret = NoRet
    /\ rc \in {Held(o) : o \in
                 {JobRecord(s, c, f, l) : s \in AdesJobStatus,
                                          c \in {Absent, Old},
                                          f \in {Absent, Old},
                                          l \in JobLinks}
                 \cup {ProcessRecord(Old, Old)}
                 \cup {LinkRecord("Ades", l) : l \in {{}, {"self"}}}
                 \cup {LinkRecord("Collection", l) : l \in {{}, {"items"}}}}

NextAdes ==
    \/ \E body \in JobBodies \cup {EmptyBody}, fail \in {0, 1} :
           JobRefresh(body, fail)
    \/ \E body \in JobBodies \cup {EmptyBody}, fail \in {0, 1} :
           JobDelete(body, fail)
    \/ \E cwl_url \in BOOLEAN, cwl_yaml \in BOOLEAN,
          body \in ProcessBodies \cup {EmptyBody}, fail \in Failures :
           ProcessUpdate(cwl_url, cwl_yaml, body, fail)
    \/ \E body \in JobBodies \cup {EmptyBody}, fail \in {0, 1} :
           ProcessExecute(body, fail)
    \/ \E fail \in {0, 1} : ProcessDelete(fail)
    \/ \E cwl_url \in BOOLEAN, cwl_yaml \in BOOLEAN,
          location \in {Absent, ProcessUrl},
          body \in ProcessBodies \cup {EmptyBody}, fail \in Failures :
           DeployProcess(cwl_url, cwl_yaml, location, body, fail)
    \/ \E fail \in {0, 1} : CollectionGetItem(fail)
    \/ \E body \in ResultsBodies \cup {EmptyBody}, fail \in Failures :
           JobGetResultItems(body, fail)

SpecAdes == InitAdes /\ [][NextAdes]_vars

\* Two consumers of one list: each holds its own generator of __iter__.
Consumers == {1, 2}

\* The page sizes of the servers the two consumers read from.
SharedSizes == {0, 1, 2}

\* The server's responses to the two consumers.
SharedResponse ==
    [echo |-> FALSE, hint |-> "none", planet |-> FALSE, failPage |-> 0,
     empty |-> "no", links |-> "one", bad |-> 0]

\* The generator of a consumer is suspended outside `yield from
\* self._elements`: what is appended to _elements from now on it will not
\* yield unless it fetched it itself.
PastReplay(g) == g.phase # "cached"

\* The generator of a consumer is suspended where its next step is
\* `self._fetch_next()`: at the end of the replay or of its batch.
AtFetch(g, L) ==
    /\ HasNext(L)
    /\ \/ g.phase = "cached" /\ g.idx = Len(L.elements)
       \/ g.phase = "batch" /\ g.idx = Len(g.batch)

\* The consumers after consumer c made a step that put g in place of its
\* generator and requested pages: a consumer past its replay will not be
\* given them.
AfterStep(gs, c, g, pages) ==
    [d \in Consumers |->
        IF d = c THEN [gs[c] EXCEPT !.g = g]
        ELSE IF PastReplay(gs[d].g)
        THEN [gs[d] EXCEPT !.missed = @ \o pages]
        ELSE gs[d]]

\* next(generator) by consumer c, the other consumer suspended at a yield.
ConsumerNext(c, r) ==
    /\ gen[c].g.phase \notin {"done", "raised"}
    /\ \E x \in {IterStep(gen[c].g, Cur, server, r)} :
           /\ Install(x.L)
           /\ gen' = AfterStep(gen, c, x.g,
                               SubSeq(x.L.requests, Len(requests) + 1,
                                      Len(x.L.requests)))
           /\ ret' = Ret("next", c, x, Cur)
    /\ UNCHANGED <<server, rc>>

\* next(generator) by both consumers in two threads, both inside
\* _fetch_next at once: each reads _next_url before the other has assigned
\* it, both request the same page, both append it to _elements.
RacingNext(r) ==
    /\ \A c \in Consumers : AtFetch(gen[c].g, Cur)
    /\ \E f \in {FetchNext(Cur, server, r)} :
           /\ f.err = "none"
           /\ f.batch # <<>>
           /\ Install([f.L EXCEPT !.elements = elements \o f.batch \o f.batch,
                                  !.requests = requests \o <<next_url, next_url>>])
           /\ gen' = [c \in Consumers |->
                         [gen[c] EXCEPT !.g =
                             AfterLoop(gen[c].g, Cur,
                                       [L |-> f.L, batch |-> f.batch,
                                        stop |-> FALSE, err |-> "none",
                                        failed |-> 0]).g]]
           /\ ret' = [op |-> "next", arg |-> 0, val |-> <<f.batch[1]>>,
                      err |-> "none", ncalls |-> 2, failed |-> 0]
    /\ UNCHANGED <<server, rc>>

\* A fresh list and two generators over it, none started.
InitShared ==
    /\ server \in [sizes : UNION {[1..n -> SharedSizes] : n \in 1..MaxPages},
                   first_data : {NoData}]
    /\ elements = <<>>
    /\ next_url = 1
    /\ data = NoData
    /\ total_count = NoCount
    /\ requests = <<>>
    /\ gen = [c \in Consumers |->
                 [g |-> NewIter(NoGen, <<>>), missed |-> <<>>]]
    /\ ret = NoRet
    /\ rc = NoRc

NextShared ==
    \/ \E c \in Consumers : ConsumerNext(c, SharedResponse)
    \/ RacingNext(SharedResponse)

SpecShared == InitShared /\ [][NextShared]_vars

\* The consumers after a call on the list itself requested pages: a
\* consumer past its replay will not be given them.
AfterCall(gs, pages) ==
    [d \in Consumers |->
        IF PastReplay(gs[d].g)
        THEN [gs[d] EXCEPT !.missed = @ \o pages]
        ELSE gs[d]]

\* list[i] between two steps of the consumers, their generators suspended.
SharedGet(i, r) ==
    /\ \E x \in {GetItem(Cur, server, r, i)} :
           /\ Install(x.L)
           /\ gen' = AfterCall(gen, SubSeq(x.L.requests, Len(requests) + 1,
                                           Len(x.L.requests)))
           /\ ret' = Ret("get", i, x, Cur)
    /\ UNCHANGED <<server, rc>>

\* list.get_limited() between two steps of the consumers.
SharedLimited(r) ==
    /\ \E x \in {GetLimited(Cur, server, r)} :
           /\ Install(x.L)
           /\ gen' = AfterCall(gen, SubSeq(x.L.requests, Len(requests) + 1,
                                           Len(x.L.requests)))
           /\ ret' = Ret("get_limited", LimitOf(data), x, Cur)
    /\ UNCHANGED <<server, rc>>

\* One thread: the steps of the two generators interleaved with list[i] and
\* get_limited(), each step run to its end before the next starts.
NextThread ==
    \/ \E c \in Consumers : ConsumerNext(c, SharedResponse)
    \/ \E i \in 0..MaxIndex : SharedGet(i, SharedResponse)
    \/ SharedLimited(SharedResponse)

SpecThread == InitShared /\ [][NextThread]_vars

\* The responses a server sends for a page: a full envelope with any
\* links, the empty object, or no body.
PageResponses ==
    {r \in EdgeResponses :
        r.empty = "no" \/ (r.links = "one" /\ ~r.echo /\ ~r.planet)}

\* The requests a caller lets a list send before it gives up on a page
\* that keeps failing.
MaxRequests == MaxPages + 1

\* The request _fetch_next sends for the next page: its url and its body.
PageRequest(L) ==
    [url |-> PlanetRewrite(L).next_url, data |-> PlanetRewrite(L).data]

\* list[i], the caller keeping the response of the server and the first
\* request the call sent next to the result.
GetFrom(i, r) ==
    \E x \in {GetItem(Cur, server, r, i)} :
        /\ Len(requests) < MaxRequests
        /\ Install(x.L)
        /\ ret' = [op |-> "get", arg |-> i, val |-> x.val, err |-> x.err,
                   ncalls |-> Len(x.L.requests) - Len(requests),
                   failed |-> x.failed, resp |-> r,
                   sent |-> IF Len(x.L.requests) > Len(requests)
                            THEN <<PageRequest(Cur)>> ELSE <<>>]
        /\ gen' = NoGen
        /\ UNCHANGED <<server, rc>>

\* The list over a server that may send empty envelopes and several next
\* links.
InitEdge ==
    /\ server \in [sizes : UNION {[1..n -> {1, MaxPageSize}] : n \in 1..MaxPages},
                   first_data : {NoData, BodyOf(1)}]
    /\ elements = <<>>
    /\ next_url = 1
    /\ data = server.first_data
    /\ total_count = NoCount
    /\ requests = <<>>
    /\ gen = NoGen
    /\ ret = NoRet
    /\ rc = NoRc

NextEdge ==
    \E i \in {0, MaxIndex}, r \in PageResponses : GetFrom(i, r)

SpecEdge == InitEdge /\ [][NextEdge]_vars

\* The list over a server one of whose pages may hold a malformed record.
NextDecode ==
    \E i \in {0, MaxIndex}, r \in DecodeResponses : GetFrom(i, r)

SpecDecode == InitEdge /\ [][NextDecode]_vars

\* ----------------------------------------------------------------- claims
RECURSIVE PagesConcat(_, _)
\* The non-null records of the requested pages, in the order of the requests.
PagesConcat(srv, reqs) ==
    IF reqs = <<>> THEN <<>>
    ELSE PagesConcat(srv, SubSeq(reqs, 1, Len(reqs) - 1))
             \o Decode(RawPage(srv, reqs[Len(reqs)]))

\* The generator is the one of __iter__, it has ended, and every page request
\* of the list was sent inside it: the list was fresh when it started and
\* nothing else fetched.
IterAloneDone ==
    gen.kind = "iter" /\ gen.phase = "done" /\ gen.own = Len(requests)

\* The last call was get_limited() and it found the list fresh: the page
\* requests sent so far are the ones it sent itself.
LimitedOnFresh ==
    ret.op = "get_limited" /\ Len(requests) = ret.ncalls

\* C1: iterating a fresh list to the end yields every non-null record of
\* pages 1..N once, in page order and in-page order, through exactly N
\* requests, one per page (nothing through 1 request for one empty page).
C1_IterateYieldsAll ==
    IterAloneDone =>
        /\ gen.out = AllRecords(server)
        /\ gen.own = NumPages(server)
        /\ requests = [k \in 1..NumPages(server) |-> k]

C1_Witness ==
    /\ IterAloneDone
    /\ NumPages(server) = 3
    /\ Len(gen.out) > 2 * MaxPageSize
    /\ Len(gen.out) < 3 * MaxPageSize

\* C2: whatever the caller has done, realized is the concatenation, in the
\* order of the requests, of the non-null records of the pages requested so
\* far, and those pages are 1..k with no gap and no repeat.
C2_RealizedIsConcat ==
    /\ elements = PagesConcat(server, requests)
    /\ requests = [k \in 1..Len(requests) |-> k]

C2_Witness ==
    /\ Len(requests) = 3
    /\ gen.kind = "slice"
    /\ Len(elements) > 2 * MaxPageSize
    /\ Len(elements) < 3 * MaxPageSize

\* C3: realized only grows by appending: what it held before a call is a
\* prefix of what it holds after the call.
C3_RealizedGrows ==
    [][IsPrefix(elements, elements')]_vars

C3_Witness ==
    /\ ret.op = "get_limited"
    /\ ret.ncalls = 2
    /\ Len(requests) = 3
    /\ Len(elements) > MaxPageSize

\* C4: once next_url is None it stays None and no call sends a request.
C4_NoFetchAfterEnd ==
    [][next_url = NoUrl =>
         /\ requests' = requests
         /\ ret'.ncalls = 0
         /\ next_url' = NoUrl]_vars

C4_Witness ==
    /\ next_url = NoUrl
    /\ ret.op = "get"
    /\ ret.err = "IndexError"
    /\ ret.ncalls = 0
    /\ Len(requests) = 3

\* C5: an iteration started on a list that a full iteration has just realized
\* to the end yields what that iteration yielded, in the same order, and
\* sends no request.
C5_SecondIterationSame ==
    (gen.kind = "iter" /\ gen.phase = "done" /\ gen.prevFull) =>
        /\ gen.out = gen.prevOut
        /\ gen.own = 0

C5_Witness ==
    /\ gen.kind = "iter"
    /\ gen.phase = "done"
    /\ gen.prevFull
    /\ Len(gen.out) > 2 * MaxPageSize
    /\ Len(requests) = 3

\* C6: list[i] for an i below the number of records the server holds returns
\* record i of the server's order, and the last page it requested, if any,
\* is the first one that made realized longer than i.
C6_GetReturnsIth ==
    (ret.op = "get" /\ ret.arg < Total(server)) =>
        /\ ret.err = "none"
        /\ ret.val = <<AllRecords(server)[ret.arg + 1]>>
        /\ ret.ncalls > 0 =>
               Len(elements) - Len(Decode(RawPage(server, requests[Len(requests)])))
                   <= ret.arg

C6_Witness ==
    /\ ret.op = "get"
    /\ ret.arg < Total(server)
    /\ ret.ncalls = 2
    /\ Len(requests) = 2
    /\ NumPages(server) = 3

\* C7: list[i] for an i at or above the number of records the server holds
\* requests every remaining page and raises IndexError; realized then holds
\* every record and next_url is None.
C7_GetBeyondEnd ==
    (ret.op = "get" /\ ret.arg >= Total(server)) =>
        /\ ret.err = "IndexError"
        /\ elements = AllRecords(server)
        /\ next_url = NoUrl
        /\ Len(requests) = NumPages(server)

C7_Witness ==
    /\ ret.op = "get"
    /\ ret.arg >= Total(server)
    /\ ret.err = "IndexError"
    /\ ret.ncalls = 3
    /\ Total(server) > 0

\* C8: get_limited() on a fresh list whose first page holds exactly `limit`
\* records and a next link returns `limit` records through exactly 1 request.
C8_LimitedOneRequest ==
    (/\ LimitedOnFresh
     /\ NumPages(server) > 1
     /\ Len(Decode(RawPage(server, 1))) = ret.arg) =>
        /\ Len(ret.val) = ret.arg
        /\ ret.ncalls = 1

\* C9: get_limited() on a fresh list returns the first min(L, T) records of
\* the server's order, L being the per_page of the first request body
\* (PAGINATION_LIMIT without a body or without per_page), T the number of
\* records the server holds.
C9_LimitedFirstRecords ==
    LimitedOnFresh =>
        /\ ret.arg = LimitOf(server.first_data)
        /\ ret.val = SubSeq(AllRecords(server), 1, Min(ret.arg, Total(server)))

C9_Witness ==
    /\ LimitedOnFresh
    /\ server.first_data = NoData
    /\ Total(server) > PAGINATION_LIMIT
    /\ Len(ret.val) = PAGINATION_LIMIT

\* C10: get_limited() on a list that already holds at least `limit` records
\* returns the first `limit` of them, sends no request, and leaves realized
\* and the next-page descriptor as they were.
C10_LimitedCached ==
    [][(ret'.op = "get_limited" /\ Len(elements) >= LimitOf(data)) =>
         /\ ret'.val = SubSeq(elements, 1, LimitOf(data))
         /\ ret'.ncalls = 0
         /\ elements' = elements
         /\ next_url' = next_url
         /\ data' = data
         /\ requests' = requests]_vars

C10_Witness ==
    /\ ret.op = "get_limited"
    /\ ret.ncalls = 0
    /\ Len(ret.val) = ret.arg
    /\ Len(elements) = ret.arg
    /\ next_url # NoUrl

\* C11: _fetch_next() on a list whose next_url is None raises RuntimeError,
\* sends no request, and leaves realized, the next-page descriptor and
\* total_count as they were.
C11_FetchNextExhaustedRaises ==
    [][ret'.op = "fetch_next" =>
         /\ next_url = NoUrl
         /\ ret'.err = "RuntimeError"
         /\ ret'.ncalls = 0
         /\ elements' = elements
         /\ next_url' = next_url
         /\ data' = data
         /\ total_count' = total_count
         /\ requests' = requests]_vars

C11_Witness ==
    /\ ret.op = "fetch_next"
    /\ ret.err = "RuntimeError"
    /\ Len(elements) > MaxPageSize
    /\ total_count = Len(elements)

\* The step is a call that fetches pages and ends in an error of the
\* request for a page.
FetchFails ==
    ret'.err = "HTTPError" /\ ret'.op \in {"get", "next"}

\* C12 (as the spec states it): when the request of a page fetch raises,
\* the error reaches the caller, realized and the next-page descriptor are
\* what they were before the request, and the next call that fetches asks
\* for the page of the failed request.
C12_FailedFetchChangesNothing ==
    [][/\ (FetchFails /\ requests' = requests) =>
             /\ elements' = elements
             /\ next_url' = next_url
             /\ data' = data
       /\ (ret.err = "HTTPError" /\ Len(requests') > Len(requests)) =>
             requests'[Len(requests) + 1] = ret.failed]_vars

\* C12 (amended): when the request of a page fetch raises, the error
\* reaches the caller and realized holds the pages answered so far; the
\* next-page descriptor is what it was before the request, except that the
\* token of a planet url has moved from the url into the body; it names the
\* page of the failed request, and the next call that fetches asks for that
\* page, so realized stays the concatenation of pages 1..k.
C12_FailedFetchRetryable ==
    [][/\ (FetchFails /\ requests' = requests) =>
             /\ elements' = elements
             /\ IF next_url < 0
                THEN /\ next_url' = PlanetSearch
                     /\ data' = [data EXCEPT !.none = FALSE, !.next = 0 - next_url]
                ELSE /\ next_url' = next_url
                     /\ data' = data
       /\ FetchFails =>
             /\ ret'.failed = Len(requests') + 1
             /\ PageOf(next_url', data') = ret'.failed
       /\ (ret.err = "HTTPError" /\ Len(requests') > Len(requests)) =>
             requests'[Len(requests) + 1] = ret.failed
       /\ elements' = PagesConcat(server, requests')
       /\ requests' = [k \in 1..Len(requests') |-> k]]_vars

C12_Witness ==
    /\ ret.op = "next"
    /\ ret.err = "HTTPError"
    /\ ret.failed = 3
    /\ next_url = PlanetSearch
    /\ data.next = 3
    /\ Len(elements) > MaxPageSize

SliceAsked ==
    /\ gen.kind = "slice"
    /\ gen.stop # NoStop
    /\ ret.op = "next"
    /\ ret.err # "StopIteration"

\* The index the last step of the slice generator asked the list for.
AskedIndex ==
    IF ret.err = "none" THEN gen.idx - gen.step ELSE gen.idx

\* C14: a slice generator with a stop and a step >= 1 asks the list only for
\* indices below the stop, and the last page a step requests, if any, is the
\* first one that makes realized longer than the index asked for.
C14_SliceStaysBelowStop ==
    SliceAsked =>
        /\ AskedIndex < gen.stop
        /\ ret.ncalls > 0 =>
               Len(elements) - Len(Decode(RawPage(server, requests[Len(requests)])))
                   <= AskedIndex

C14_Witness ==
    /\ SliceAsked
    /\ ret.err = "none"
    /\ AskedIndex = gen.stop - 1
    /\ ret.ncalls = 1
    /\ Len(requests) = 2
    /\ next_url # NoUrl

\* C15: a slice generator ends without raising when the list runs out before
\* a position of the slice is reached, having yielded the records at start,
\* start + step, ... that exist below the stop.
C15_SliceEndsQuietly ==
    (gen.kind = "slice" /\ ret.op = "next") =>
        /\ ret.err \in {"none", "StopIteration"}
        /\ gen.phase = "done" =>
               gen.out = [j \in 1..Len(gen.out) |->
                             AllRecords(server)[gen.start + (j - 1) * gen.step + 1]]

\* C16: the count request of total_count goes to the first url, whatever has
\* been fetched before.
C16_CountRequestToFirstUrl ==
    (ret.op = "total_count" /\ ret.ncalls = 1) => ret.arg = 1

\* C17: total_count does not raise for want of a count: a read that leaves
\* the count unknown has returned None.
C17_CountReadNeverRaises ==
    (ret.op = "total_count" /\ total_count = NoCount) =>
        /\ ret.err = "none"
        /\ ret.val = <<>>

\* C18: after a call whose page fetch left a count c >= 0 on the list,
\* total_count returns c and sends no request.
C18_CountHintReturned ==
    [][(/\ ret.op \in {"get", "get_limited", "next"}
        /\ ret.ncalls > 0
        /\ total_count # NoCount
        /\ ret'.op = "total_count") =>
         /\ ret'.err = "none"
         /\ ret'.val = <<total_count>>
         /\ ret'.ncalls = 0]_vars

\* The requests that change something on the server.
Mutating == {"PUT", "POST", "DELETE"}

\* C19: a gated method on a record whose root is the service, against a
\* server whose conformance list lacks the transaction extension, raises
\* ConformanceError, sends no PUT, POST or DELETE, and leaves the fields of
\* the record as they were.
C19_GateBlocksMutation ==
    [][(/\ rc'.op \in {op.name : op \in GatedOps}
        /\ RootIsService(rc)
        /\ TRANSACTION_EXTENSION \notin rc'.conf) =>
         /\ rc'.err = "ConformanceError"
         /\ \A j \in 1..Len(rc'.calls) : rc'.calls[j] \notin Mutating
         /\ rc'.description = rc.description
         /\ rc'.cls = rc.cls
         /\ rc'.rooted = rc.rooted]_vars

C19_Witness ==
    /\ rc.cls = "Item"
    /\ rc.rooted
    /\ rc.op = "update"
    /\ rc.conf = {CORE}
    /\ rc.err = "ConformanceError"
    /\ rc.description = 2

\* C20: a method that rejects its arguments raises before it has sent any
\* request.
C20_ValidationBeforeRequests ==
    rc.err = "AssertionError" => rc.calls = <<>>

\* The requests of the last call that change something on the server.
Mutations == SelectSeq(rc.calls, LAMBDA c : c.method \in Mutating)

\* The last call was Process.update or Ades.deploy_process.
CwlCall == rc.op \in {"update", "deploy_process"}

\* The method of the mutating request of the last call.
CwlMethod == IF rc.op = "update" THEN "PUT" ELSE "POST"

C22_OneCallPerMutation ==
    (rc.op \in {op.name : op \in GatedOps} /\ rc.err = "none") =>
        Len(rc.calls) = 1

\* The attributes _set_props assigns.
FieldsOf(o) ==
    IF o.cls = "Job"
    THEN [status |-> o.status, created |-> o.created,
          finished |-> o.finished, links |-> o.links]
    ELSE IF o.cls = "Process"
    THEN [title |-> o.title, version |-> o.version]
    ELSE [links |-> o.links]

\* The projection of a JSON alone: a key it lacks is an absent field.
ProjectionOf(o, body) ==
    IF o.cls = "Job"
    THEN [status |-> body.status, created |-> body.created,
          finished |-> body.finished, links |-> body.links]
    ELSE [title |-> body.title, version |-> body.version]

\* The JSON has a value that cannot be projected.
Unprojectable(o, body) ==
    IF o.cls = "Job" THEN body.created = Malformed
    ELSE body.version = Malformed

\* The step is a refresh, update or delete whose requests were all
\* answered.
Answered ==
    /\ rc'.op \in {"refresh", "update", "delete"}
    /\ rc'.calls # <<>>
    /\ rc'.err # "HTTPError"

\* C23: a refresh, update or delete answered with a non-empty body leaves
\* the record with the projection of that body alone, or, when the body
\* cannot be projected, with the fields it had.
C23_WholeFieldSetReplaced ==
    [][(Answered /\ ~rc'.body.empty) =>
         IF Unprojectable(rc.o, rc'.body)
         THEN FieldsOf(rc'.o) = FieldsOf(rc.o)
         ELSE FieldsOf(rc'.o) = ProjectionOf(rc.o, rc'.body)]_vars

C26_MissingLinkRuntimeError ==
    (/\ rc.op # "none"
     /\ rc.o.cls \in DOMAIN RequiredRel
     /\ rc.args.cwl_url # rc.args.cwl_yaml \/ rc.op # "deploy_process"
     /\ rc.o.href = Absent) =>
        /\ rc.err = "RuntimeError"
        /\ rc.calls = <<>>

\* The pages 1..n without the pages of skip, in order.
PagesBut(n, skip) ==
    SelectSeq([k \in 1..n |-> k],
              LAMBDA k : \A j \in 1..Len(skip) : skip[j] # k)

\* C27: two interleaved consumers share _elements and _next_url: a page
\* one of them fetches is never given to the other once that one has left
\* its replay of _elements.  A consumer that has finished was given, in
\* order, the records of every page but those, and a page requested twice
\* is twice in _elements.
C27_SharedCursor ==
    /\ elements = PagesConcat(server, requests)
    /\ \A c \in Consumers :
           gen[c].g.phase = "done" =>
               gen[c].g.out =
                   PagesConcat(server,
                               PagesBut(NumPages(server), gen[c].missed))

\* A consumer has finished without the records of the second page.
C27_Witness ==
    /\ gen[1].g.phase = "done"
    /\ gen[1].missed = <<2>>
    /\ server.sizes = <<1, 2, 1>>
    /\ gen[1].g.out = <<1, 4>>
    /\ requests = <<1, 2, 3>>

\* The records of the first page are twice in _elements.
C27_Duplicated ==
    /\ server.sizes = <<2, 1>>
    /\ requests = <<1, 1, 2>>
    /\ elements = <<1, 2, 1, 2, 3>>

\* C28: a create_catalog that passed the conformance check sent one POST,
\* to the catalogs endpoint of the service.
C28_CreateCatalogPostsToCatalogs ==
    (rc.op = "create_catalog" /\ rc.err = "none") =>
        /\ rc.calls = <<"GET", "POST">>
        /\ rc.url = "catalogs"

\* The first member of links with rel "next", or a link to nowhere.
FirstNext(links) ==
    LET idx == {j \in 1..Len(links) : links[j].rel = "next"}
    IN  IF idx = {} THEN [href |-> NoUrl, body |-> NoData]
        ELSE LET j == CHOOSE a \in idx : \A b \in idx : a <= b
             IN  [href |-> links[j].href, body |-> links[j].body]

\* The envelope that answered the last page request of the step.
LastEnvelope ==
    Envelope(server, requests'[Len(requests')], ret'.resp)

C30_EmptyEnvelopeIsNoError ==
    (ret.op = "get" /\ ret.ncalls > 0 /\ ret.resp.empty # "no") =>
        /\ ret.err # "AttributeError"
        /\ next_url = NoUrl
        /\ data = NoData

\* The empty object as a page: nothing raised, no next url.
C30_EmptyObjectEnds ==
    /\ ret.op = "get"
    /\ ret.resp.empty = "object"
    /\ ret.err = "IndexError"
    /\ ret.ncalls = 1
    /\ requests = <<1>>
    /\ NumPages(server) = 2
    /\ next_url = NoUrl

\* C31: a page fetch that fails because decoding one of the page's records
\* raises leaves the next-page descriptor unchanged: after the failed call the
\* descriptor still names the page whose request was answered last, so a
\* later call requests that page again.
C31_DecodeFailureKeepsDescriptor ==
    (ret.op = "get" /\ ret.err = "TypeError") =>
        /\ next_url # NoUrl
        /\ PageOf(PageRequest(Cur).url, PageRequest(Cur).data)
               = requests[Len(requests)]

\* The list is exhausted, no call has raised since the failed decode was
\* passed over, and the records of a requested page are not in _elements.
C31_PageLost ==
    /\ next_url = NoUrl
    /\ ret.err = "IndexError"
    /\ Len(requests) = NumPages(server)
    /\ elements # PagesConcat(server, requests)

\* C32: once total_count is known, a step that fetches pages never makes it
\* unknown again: a page whose envelope carries no count hint leaves the
\* known count in place.
C32_KnownCountStays ==
    [][(total_count # NoCount /\ Len(requests') > Len(requests)) =>
         total_count' # NoCount]_vars

C34_ResultsOnlyWhenSuccessful ==
    rc.op = "get_result_items" =>
        /\ rc.o.status # "successful" =>
               rc.err = "ResultsNotReadyError" /\ rc.calls = <<>>
        /\ rc.calls # <<>> =>
               /\ rc.o.status = "successful"
               /\ "results" \in rc.o.links
               /\ rc.calls[1] = Req("GET", ResultsUrl)

C34_Witness ==
    /\ rc.op = "get_result_items"
    /\ rc.o.status = "failed"
    /\ "results" \in rc.o.links
    /\ rc.err = "ResultsNotReadyError"
    /\ rc.calls = <<>>

\* A successful job with a results link had its results collection and
\* both items fetched.
C34_ResultsFetched ==
    /\ rc.op = "get_result_items"
    /\ rc.err = "none"
    /\ Len(rc.calls) = 3

\* C35: get_limited() called twice in a row returns the same list both
\* times, and the second call sends no request.
C35_LimitedIdempotent ==
    [][(ret.op = "get_limited" /\ ret.err = "none"
            /\ ret'.op = "get_limited") =>
         /\ ret'.val = ret.val
         /\ ret'.ncalls = 0]_vars

\* The server answers every request alike, without a body on its next
\* links, and the second get_limited() in a row found a larger limit than the
\* first and returned more records.
C35_SecondCallLonger ==
    /\ ret.op = "get_limited"
    /\ ret.err = "none"
    /\ server.first_data.per_page = 1
    /\ ret.arg = PAGINATION_LIMIT
    /\ ret.ncalls = 1
    /\ Len(requests) = 3
    /\ Len(ret.val) = 3

\* C36: in one thread, however the steps of two iterators, list[i] and
\* get_limited() are interleaved on one list, every page is requested at
\* most once, in chain order, and _elements is the concatenation of the
\* pages requested so far.
C36_SharedStateConsistent ==
    /\ requests = [k \in 1..Len(requests) |-> k]
    /\ elements = RecordsUpTo(server, Len(requests))

C36_Witness ==
    /\ gen[1].g.phase = "batch"
    /\ gen[1].g.own = 1
    /\ gen[2].g.phase = "cached"
    /\ gen[2].g.idx >= 1
    /\ gen[1].missed # <<>>
    /\ ret.op = "get_limited"
    /\ Len(requests) = 3

\* C37: for every Catalog, Collection and Item record, in every reachable
\* state, the projected fields equal the projection of the wrapped STAC
\* object that to_dict() serialises.
C37_FieldsMatchWrappedObject ==
    rc.cls \in {"Catalog", "Collection", "Item"} =>
        rc.description = rc.pystac

\* C38: a conformance-gated operation on a record, however the record was
\* obtained, finds a root that answers the conformance query: the query is
\* sent, and the operation then raises ConformanceError, fails an assert on
\* its arguments or sends its mutating request.
C38_GatedFindsRoot ==
    (rc.cls \in {"Catalog", "Collection", "Item"}
        /\ rc.op \in {op.name : op \in GatedOps}) =>
        /\ rc.calls # <<>>
        /\ rc.calls[1] = "GET"
        /\ \/ rc.err \in {"ConformanceError", "AssertionError"}
           \/ rc.err = "none" /\ Len(rc.calls) = 2

====
